---- MODULE Spec2Model ----
(***************************************************************************)
(* The squarified treemap layout engine of packages/shared (treemap.ts):   *)
(* treemap -> normalize -> sort -> squarify -> layoutRow; the utility      *)
(* functions priorityToWeight, calculateProgress and truncate (utils.ts);  *)
(* and the edge functions image-request and leaderboard with the tables    *)
(* they read and write.                                                    *)
(*                                                                         *)
(* A JavaScript number is modelled as an extended rational <<n, d>>:       *)
(*   d > 0        the finite value n/d, in lowest terms                    *)
(*   <<1, 0>>     +Infinity      <<-1, 0>>   -Infinity                     *)
(*   <<0, 0>>     NaN                                                      *)
(* The arithmetic is exact (no rounding) and follows IEEE-754 for the      *)
(* special values (x/0, 0/0, Infinity - Infinity, comparisons with NaN);   *)
(* the sign of zero is not modelled.                                       *)
(***************************************************************************)
EXTENDS Integers, Sequences, FiniteSets, TLC

\* ------------------------------------------------------------------ bounds
MaxItems  == 3
MaxWeight == 3
MaxDim    == 3
MaxCount  == 4
MaxTextLen == 4

\* ------------------------------------------------------ number arithmetic
Abs(x) == IF x < 0 THEN -x ELSE x

Sgn(x) == IF x > 0 THEN 1 ELSE IF x < 0 THEN -1 ELSE 0

RECURSIVE Gcd(_, _)
Gcd(a, b) == IF b = 0 THEN a ELSE Gcd(b, a % b)

\* gcd of the magnitudes, 1 when both are 0
G(x, y) == LET g == Gcd(Abs(x), Abs(y)) IN IF g = 0 THEN 1 ELSE g

\* the number n/d: lowest terms, d >= 0; n/0 is +-Infinity or NaN
Num(n, d) ==
  IF d = 0 THEN <<Sgn(n), 0>>
  ELSE LET g == G(n, d)
           s == Sgn(d)
       IN  <<s * (n \div g), s * (d \div g)>>

Whole(i) == <<i, 1>>

Zero == Whole(0)

NaN == <<0, 0>>

IsNaN(a) == a = NaN

IsFinite(a) == a[2] > 0

\* a + b
RAdd(a, b) ==
  IF a[2] = 0 /\ b[2] = 0
  THEN IF a = b THEN a ELSE NaN
  ELSE LET g == G(a[2], b[2])
       IN  Num(a[1] * (b[2] \div g) + b[1] * (a[2] \div g), (a[2] \div g) * b[2])

RNeg(a) == <<-a[1], a[2]>>

\* a - b
RSub(a, b) == RAdd(a, RNeg(b))

\* a * b
RMul(a, b) ==
  LET g1 == G(a[1], b[2])
      g2 == G(b[1], a[2])
  IN  Num((a[1] \div g1) * (b[1] \div g2), (a[2] \div g2) * (b[2] \div g1))

\* a / b
RDiv(a, b) ==
  LET g1 == G(a[1], b[1])
      g2 == G(a[2], b[2])
      n  == (a[1] \div g1) * (b[2] \div g2)
      d  == (a[2] \div g2) * (b[1] \div g1)
  IN  IF d < 0 THEN Num(-n, -d) ELSE Num(n, d)

\* a/b < c/d for b > 0 and d > 0, by integer parts and then the reciprocals
\* of the fractional parts, so that no product is formed
RECURSIVE LtFinite(_, _, _, _)
LtFinite(a, b, c, d) ==
  IF a \div b # c \div d THEN a \div b < c \div d
  ELSE IF a % b = 0 THEN c % d > 0
  ELSE IF c % d = 0 THEN FALSE
  ELSE LtFinite(d, c % d, b, a % b)

\* a < b (false when either side is NaN)
RLt(a, b) ==
  IF IsNaN(a) \/ IsNaN(b) THEN FALSE
  ELSE IF a[2] = 0 \/ b[2] = 0
       THEN (IF a[2] = 0 THEN a[1] ELSE 0) < (IF b[2] = 0 THEN b[1] ELSE 0)
  ELSE LtFinite(a[1], a[2], b[1], b[2])

RLe(a, b) == RLt(a, b) \/ (a = b /\ ~IsNaN(a))

\* Math.min(a, b)
MathMin(a, b) == IF IsNaN(a) \/ IsNaN(b) THEN NaN ELSE IF RLt(a, b) THEN a ELSE b

\* Math.max(a, b)
MathMax(a, b) == IF IsNaN(a) \/ IsNaN(b) THEN NaN ELSE IF RLt(a, b) THEN b ELSE a

One == Whole(1)

PosInf == <<1, 0>>

NegInf == <<-1, 0>>

\* ------------------------------------------------------------ the inputs
Weights == (-1)..MaxWeight

Dims == 1..MaxDim

\* the opaque payload carried by the item with id i
Payload(i) == <<"data", i>>

\* a TreemapItem list: ids are the positions, weights come from ws
MkItems(ws) ==
  [i \in 1..Len(ws) |-> [id |-> i, weight |-> Whole(ws[i]), data |-> Payload(i)]]

ItemLists == {MkItems(ws) : ws \in UNION {[1..n -> Weights] : n \in 0..MaxItems}}

\* ------------------------------------------------------------- the state
VARIABLES
  pc,          \* "call": treemap about to run; "squarify": an invocation of
               \* squarify is pending; "done": treemap has returned
  items,       \* argument items of treemap
  W,           \* argument containerWidth
  H,           \* argument containerHeight
  todo,        \* parameter items of the pending squarify invocation
  row,         \* parameter row
  container,   \* parameter container
  rects,       \* parameter rects; the returned list once pc = "done"
  normCalls,   \* invocations of normalize in this call of treemap
  sqCalls,     \* invocations of squarify in this call of treemap
  memo,        \* an earlier invocation remembered by the caller
  upc,         \* a call of a utility function: "none", "call" or "done"
  ucall,       \* the utility function called and its arguments
  uret,        \* the value it returned
  settings,    \* the row daily_community_seed of table settings, or none
  aiImages,    \* the rows of table ai_images, in insertion order
  ipc,         \* per request of image-request: the position of its handler
  ibody,       \* per request: the body it was sent
  iseed,       \* per request: its userVariationSeed, once computed
  iresponse,   \* per request: the response it has sent
  now,         \* the clock, in minutes since 00:00 of the period's day
  ticks,       \* how often the clock has been advanced
  profiles,    \* table profiles: per user a profile or none
  boards,      \* table boards of the period: per user the completed board, or none
  leaderboards,\* the row of table leaderboards for the period, or none
  lpc,         \* the position of the leaderboard handler
  lreq,        \* the request it serves
  lentries,    \* entries of getLeaderboard, once computed
  lresponse,   \* the response it has sent
  boardReads,  \* queries of table boards made for the request served
  boardWrites  \* writes of table leaderboards made for the request served

\* the state of a call of treemap
tvars == <<pc, items, W, H, todo, row, container, rects, normCalls, sqCalls, memo>>

\* the state of a call of priorityToWeight, calculateProgress or truncate
uvars == <<upc, ucall, uret>>

\* the state of the requests of function image-request
ivars == <<settings, aiImages, ipc, ibody, iseed, iresponse>>

\* the state of function leaderboard, its tables and the clock
lvars == <<now, ticks, profiles, boards, leaderboards, lpc, lreq, lentries, lresponse,
           boardReads, boardWrites>>

\* the state of the edge functions
fvars == <<ivars, lvars>>

vars == <<pc, items, W, H, todo, row, container, rects, normCalls, sqCalls, memo,
          upc, ucall, uret, ivars, lvars>>

\* ---------------------------------------------------------- pure helpers
\* row.reduce((acc, item) => acc + item.weight, 0)
RECURSIVE SumWeights(_)
SumWeights(s) ==
  IF Len(s) = 0 THEN Zero
  ELSE RAdd(SumWeights(SubSeq(s, 1, Len(s) - 1)), s[Len(s)].weight)

\* Math.max(...row.map(item => item.weight))
RECURSIVE RowMax(_)
RowMax(s) ==
  IF Len(s) = 0 THEN NegInf
  ELSE MathMax(RowMax(SubSeq(s, 1, Len(s) - 1)), s[Len(s)].weight)

\* Math.min(...row.map(item => item.weight))
RECURSIVE RowMin(_)
RowMin(s) ==
  IF Len(s) = 0 THEN PosInf
  ELSE MathMin(RowMin(SubSeq(s, 1, Len(s) - 1)), s[Len(s)].weight)

worst(r, width) ==
  LET sum    == SumWeights(r)
      rowMax == RowMax(r)
      rowMin == RowMin(r)
      w2     == RMul(width, width)
      s2     == RMul(sum, sum)
  IN  MathMax(RDiv(RMul(w2, rowMax), s2), RDiv(s2, RMul(w2, rowMin)))

Undefined == <<"undefined", 0>>

\* normalize without the spread of the item: the payload is lost
normalizeNoSpread(its, area) ==
  LET totalWeight == SumWeights(its)
  IN  [i \in 1..Len(its) |->
         [id |-> its[i].id, weight |-> RMul(RDiv(its[i].weight, totalWeight), area),
          data |-> Undefined]]

\* normalize dividing by the number of items instead of their total weight
normalizeByCount(its, area) ==
  LET totalWeight == Whole(Len(its))
  IN  [i \in 1..Len(its) |->
         [its[i] EXCEPT !.weight = RMul(RDiv(its[i].weight, totalWeight), area)]]

normalize(its, area) ==
  LET totalWeight == SumWeights(its)
  IN  [i \in 1..Len(its) |->
         [its[i] EXCEPT !.weight = RMul(RDiv(its[i].weight, totalWeight), area)]]

\* the loop of layoutRow without offsetX += rectWidth
RECURSIVE RowRectsNoAdvance(_, _, _, _)
RowRectsNoAdvance(r, offsetX, y, rowHeight) ==
  IF Len(r) = 0 THEN <<>>
  ELSE LET item      == Head(r)
           rectWidth == RDiv(item.weight, rowHeight)
       IN  <<[id |-> item.id, x |-> offsetX, y |-> y,
              width |-> rectWidth, height |-> rowHeight, data |-> item.data]>>
           \o RowRectsNoAdvance(Tail(r), offsetX, y, rowHeight)

\* the rectangles pushed by the loop of layoutRow, offsetX advancing
RECURSIVE RowRects(_, _, _, _)
RowRects(r, offsetX, y, rowHeight) ==
  IF Len(r) = 0 THEN <<>>
  ELSE LET item      == Head(r)
           rectWidth == RDiv(item.weight, rowHeight)
       IN  <<[id |-> item.id, x |-> offsetX, y |-> y,
              width |-> rectWidth, height |-> rowHeight, data |-> item.data]>>
           \o RowRects(Tail(r), RAdd(offsetX, rectWidth), y, rowHeight)

\* layoutRow returning a remaining container that starts where the row starts
layoutRowKeepsOrigin(r, width, c) ==
  LET sum       == SumWeights(r)
      rowHeight == RDiv(sum, width)
  IN  [rects     |-> RowRects(r, c.x, c.y, rowHeight),
       remaining |-> [x |-> c.x, y |-> c.y,
                      width |-> c.width, height |-> RSub(c.height, rowHeight)]]

layoutRow(r, width, c) ==
  LET sum       == SumWeights(r)
      rowHeight == RDiv(sum, width)
  IN  [rects     |-> RowRects(r, c.x, c.y, rowHeight),
       remaining |-> [x |-> c.x, y |-> RAdd(c.y, rowHeight),
                      width |-> c.width, height |-> RSub(c.height, rowHeight)]]

validItemsNonNegative(its) == SelectSeq(its, LAMBDA item : ~RLt(item.weight, Zero))

\* items.filter(item => item.weight > 0)
validItems(its) == SelectSeq(its, LAMBDA item : RLt(Zero, item.weight))

\* the comparator (a, b) => b.weight - a.weight
Compare(a, b) == RSub(b.weight, a.weight)

\* Array.prototype.sort is stable: x goes before the first element that the
\* comparator orders strictly after it
RECURSIVE InsertBeforeEqual(_, _)
\* an insertion that puts x before the elements it compares equal to
InsertBeforeEqual(s, x) ==
  IF Len(s) = 0 THEN <<x>>
  ELSE IF ~RLt(Compare(Head(s), x), Zero) THEN <<x>> \o s
  ELSE <<Head(s)>> \o InsertBeforeEqual(Tail(s), x)

RECURSIVE Insert(_, _)
Insert(s, x) ==
  IF Len(s) = 0 THEN <<x>>
  ELSE IF RLt(Zero, Compare(Head(s), x)) THEN <<x>> \o s
  ELSE <<Head(s)>> \o Insert(Tail(s), x)

\* no sort at all: the items stay in input order
SortDescNone(s) == s

RECURSIVE SortDesc(_)
SortDesc(s) ==
  IF Len(s) = 0 THEN <<>>
  ELSE Insert(SortDesc(SubSeq(s, 1, Len(s) - 1)), s[Len(s)])

NoContainer == [x |-> Zero, y |-> Zero, width |-> Zero, height |-> Zero]

NoMemo == [set |-> FALSE]

NoCall == [fn |-> "none"]

\* ------------------------------------------ the edge functions, at rest
MaxRequests == 2
MaxUsers == 3
MaxTicks == 2

\* the concurrent requests of image-request
Requests == 1..MaxRequests

\* the users owning a board of the period
Users == 1..MaxUsers

\* null / undefined of a row, a field or a parameter
Null == [null |-> TRUE]

NoResponse == [status |-> 0]

\* no request is in flight and the tables are as created
FunctionsIdle ==
  /\ settings = Null
  /\ aiImages = <<>>
  /\ ipc = [r \in Requests |-> "idle"]
  /\ ibody = [r \in Requests |-> Null]
  /\ iseed = [r \in Requests |-> Null]
  /\ iresponse = [r \in Requests |-> NoResponse]
  /\ now = 0
  /\ ticks = 0
  /\ profiles = [u \in Users |-> Null]
  /\ boards = [u \in Users |-> Null]
  /\ leaderboards = Null
  /\ lpc = "idle"
  /\ lreq = Null
  /\ lentries = <<>>
  /\ lresponse = NoResponse
  /\ boardReads = 0
  /\ boardWrites = 0

\* --------------------------------------------------------------- actions
Init ==
  /\ pc = "call"
  /\ items \in ItemLists
  /\ W \in Dims
  /\ H \in Dims
  /\ todo = <<>>
  /\ row = <<>>
  /\ container = NoContainer
  /\ rects = <<>>
  /\ normCalls = 0
  /\ sqCalls = 0
  /\ memo = NoMemo
  /\ upc = "none"
  /\ ucall = NoCall
  /\ uret = Zero
  /\ FunctionsIdle

\* the early returns of treemap, reached without normalize or squarify
ShortCircuitNoFilterCheck(its) == Len(its) = 0

ShortCircuit(its) == Len(its) = 0 \/ Len(validItems(its)) = 0

\* the items of the caller's array with the normalized weights written back
\* into the positive-weight ones
WrittenBack(its, area) ==
  LET totalWeight == SumWeights(validItems(its))
  IN  [i \in 1..Len(its) |->
         IF RLt(Zero, its[i].weight)
         THEN [its[i] EXCEPT !.weight = RMul(RDiv(its[i].weight, totalWeight), area)]
         ELSE its[i]]

\* treemap with a normalize that assigns item.weight instead of copying
TreemapNormalizesInPlace ==
  /\ pc = "call"
  /\ IF ShortCircuit(items)
     THEN /\ pc' = "done"
          /\ rects' = <<>>
          /\ todo' = <<>>
          /\ row' = <<>>
          /\ container' = NoContainer
          /\ normCalls' = 0
          /\ items' = items
     ELSE LET area       == RMul(Whole(W), Whole(H))
              normalized == normalize(validItems(items), area)
          IN  /\ pc' = "squarify"
              /\ todo' = SortDesc(normalized)
              /\ row' = <<>>
              /\ container' = [x |-> Zero, y |-> Zero,
                               width |-> Whole(W), height |-> Whole(H)]
              /\ rects' = <<>>
              /\ normCalls' = 1
              /\ items' = WrittenBack(items, area)
  /\ sqCalls' = 0
  /\ UNCHANGED <<W, H, memo, uvars, fvars>>

\* treemap with the accumulator of squarify kept from the previous call
TreemapSharedRects ==
  /\ pc = "call"
  /\ IF ShortCircuit(items)
     THEN /\ pc' = "done"
          /\ rects' = <<>>
          /\ todo' = <<>>
          /\ row' = <<>>
          /\ container' = NoContainer
          /\ normCalls' = 0
     ELSE LET area       == RMul(Whole(W), Whole(H))
              normalized == normalize(validItems(items), area)
          IN  /\ pc' = "squarify"
              /\ todo' = SortDesc(normalized)
              /\ row' = <<>>
              /\ container' = [x |-> Zero, y |-> Zero,
                               width |-> Whole(W), height |-> Whole(H)]
              /\ rects' = rects
              /\ normCalls' = 1
  /\ sqCalls' = 0
  /\ UNCHANGED <<items, W, H, memo, uvars, fvars>>

\* treemap(items, containerWidth, containerHeight), up to its return or its
\* call of squarify
Treemap ==
  /\ pc = "call"
  /\ IF ShortCircuit(items)
     THEN /\ pc' = "done"
          /\ rects' = <<>>
          /\ todo' = <<>>
          /\ row' = <<>>
          /\ container' = NoContainer
          /\ normCalls' = 0
     ELSE LET area       == RMul(Whole(W), Whole(H))
              normalized == normalize(validItems(items), area)
          IN  /\ pc' = "squarify"
              /\ todo' = SortDesc(normalized)
              /\ row' = <<>>
              /\ container' = [x |-> Zero, y |-> Zero,
                               width |-> Whole(W), height |-> Whole(H)]
              /\ rects' = <<>>
              /\ normCalls' = 1
  /\ sqCalls' = 0
  /\ UNCHANGED <<items, W, H, memo, uvars, fvars>>

\* squarify with items.length === 0: flush the open row and return
SquarifyFlush ==
  /\ pc = "squarify"
  /\ Len(todo) = 0
  /\ rects' = IF Len(row) > 0
              THEN rects \o layoutRow(row, MathMin(container.width, container.height),
                                      container).rects
              ELSE rects
  /\ pc' = "done"
  /\ sqCalls' = sqCalls + 1
  /\ UNCHANGED <<items, W, H, todo, row, container, normCalls, memo, uvars, fvars>>

\* squarify with an empty row: the next item opens the row
SquarifyStart ==
  /\ pc = "squarify"
  /\ Len(todo) > 0
  /\ Len(row) = 0
  /\ row' = <<Head(todo)>>
  /\ todo' = Tail(todo)
  /\ sqCalls' = sqCalls + 1
  /\ UNCHANGED <<pc, items, W, H, container, rects, normCalls, memo, uvars, fvars>>

\* the test of squarify with the comparison turned around
ImprovesReversed(r, item, c) ==
  LET width == MathMin(c.width, c.height)
  IN  RLt(worst(r, width), worst(Append(r, item), width)) \/ Len(r) = 0

\* the test of squarify with <= in place of <
ImprovesOrTies(r, item, c) ==
  LET width == MathMin(c.width, c.height)
  IN  RLe(worst(Append(r, item), width), worst(r, width)) \/ Len(r) = 0

\* the test of squarify: adding the item improves the worst aspect ratio
Improves(r, item, c) ==
  LET width == MathMin(c.width, c.height)
  IN  RLt(worst(Append(r, item), width), worst(r, width)) \/ Len(r) = 0

\* squarify: the item joins the open row
SquarifyExtend ==
  /\ pc = "squarify"
  /\ Len(todo) > 0
  /\ Len(row) > 0
  /\ Improves(row, Head(todo), container)
  /\ row' = Append(row, Head(todo))
  /\ todo' = Tail(todo)
  /\ sqCalls' = sqCalls + 1
  /\ UNCHANGED <<pc, items, W, H, container, rects, normCalls, memo, uvars, fvars>>

\* squarify recursing with the row it has just laid out
SquarifyFinalizeKeepsRow ==
  /\ pc = "squarify"
  /\ Len(todo) > 0
  /\ Len(row) > 0
  /\ ~Improves(row, Head(todo), container)
  /\ LET out == layoutRow(row, MathMin(container.width, container.height), container)
     IN  /\ rects' = rects \o out.rects
         /\ container' = out.remaining
  /\ row' = row
  /\ sqCalls' = sqCalls + 1
  /\ UNCHANGED <<pc, items, W, H, todo, normCalls, memo, uvars, fvars>>

\* squarify: lay out the open row and start a new one in what remains
SquarifyFinalize ==
  /\ pc = "squarify"
  /\ Len(todo) > 0
  /\ Len(row) > 0
  /\ ~Improves(row, Head(todo), container)
  /\ LET out == layoutRow(row, MathMin(container.width, container.height), container)
     IN  /\ rects' = rects \o out.rects
         /\ container' = out.remaining
  /\ row' = <<>>
  /\ sqCalls' = sqCalls + 1
  /\ UNCHANGED <<pc, items, W, H, todo, normCalls, memo, uvars, fvars>>

Next ==
  \/ Treemap
  \/ SquarifyFlush
  \/ SquarifyStart
  \/ SquarifyExtend
  \/ SquarifyFinalize

Spec == Init /\ [][Next]_vars

\* ------------------------------------------- repeated calls of treemap
DetMaxItems == 3
DetMaxDim == 2

\* lists of items of equal weight
DetItemLists ==
  {MkItems(ws) : ws \in UNION {[1..n -> {1}] : n \in 0..DetMaxItems}}

DetDims == 1..DetMaxDim

InitDet ==
  /\ pc = "call"
  /\ items \in DetItemLists
  /\ W \in DetDims
  /\ H \in DetDims
  /\ todo = <<>>
  /\ row = <<>>
  /\ container = NoContainer
  /\ rects = <<>>
  /\ normCalls = 0
  /\ sqCalls = 0
  /\ memo = NoMemo
  /\ upc = "none"
  /\ ucall = NoCall
  /\ uret = Zero
  /\ FunctionsIdle

\* the caller takes the returned list, may remember the call, and calls
\* treemap again; nothing of the finished call is cleared in between
Invoke ==
  /\ pc = "done"
  /\ pc' = "call"
  /\ items' \in DetItemLists
  /\ W' \in DetDims
  /\ H' \in DetDims
  /\ \/ memo' = memo
     \/ /\ ~memo.set
        /\ memo' = [set |-> TRUE, items |-> items, W |-> W, H |-> H, result |-> rects]
  /\ UNCHANGED <<todo, row, container, rects, normCalls, sqCalls, uvars, fvars>>

NextDet ==
  \/ Treemap
  \/ SquarifyFlush
  \/ SquarifyStart
  \/ SquarifyExtend
  \/ SquarifyFinalize
  \/ Invoke

SpecDet == InitDet /\ [][NextDet]_vars

\* -------------------------------------------- any container dimensions
AnyDims == (-1)..MaxDim

InitAny ==
  /\ pc = "call"
  /\ items \in ItemLists
  /\ W \in AnyDims
  /\ H \in AnyDims
  /\ todo = <<>>
  /\ row = <<>>
  /\ container = NoContainer
  /\ rects = <<>>
  /\ normCalls = 0
  /\ sqCalls = 0
  /\ memo = NoMemo
  /\ upc = "none"
  /\ ucall = NoCall
  /\ uret = Zero
  /\ FunctionsIdle

SpecAny == InitAny /\ [][Next]_vars

\* ------------------------------------------------- the utility functions
Priorities == {"high", "medium", "low"}

\* the default value of the parameter weights of priorityToWeight
DefaultWeights == [high |-> 3, medium |-> 2, low |-> 1]

\* priorityToWeight that never looks at the table it is given
priorityToWeightDefaultOnly(priority, hasWeights, weights) == DefaultWeights[priority]

\* priorityToWeight(priority, weights); hasWeights is FALSE when the second
\* argument is omitted
priorityToWeight(priority, hasWeights, weights) ==
  (IF hasWeights THEN weights ELSE DefaultWeights)[priority]

\* calculateProgress without the test of total === 0
calculateProgressNoGuard(completed, total) ==
  MathMin(One, MathMax(Zero, RDiv(Whole(completed), Whole(total))))

calculateProgress(completed, total) ==
  IF total = 0 THEN Zero
  ELSE MathMin(One, MathMax(Zero, RDiv(Whole(completed), Whole(total))))

\* a string is the sequence of its characters
Ellipsis == <<".", ".", ".">>

\* an index argument of String.prototype.slice, relative to the end when
\* negative and clamped to the string
SliceIndex(len, i) ==
  IF i < 0 THEN (IF len + i < 0 THEN 0 ELSE len + i)
  ELSE (IF i > len THEN len ELSE i)

\* text.slice(start, end)
Slice(text, start, end) ==
  LET from == SliceIndex(Len(text), start)
      to   == SliceIndex(Len(text), end)
  IN  IF from >= to THEN <<>> ELSE SubSeq(text, from + 1, to)

truncate(text, maxLength) ==
  IF Len(text) <= maxLength THEN text
  ELSE Slice(text, 0, maxLength - 3) \o Ellipsis

\* the calls made
NoTable == [p \in Priorities |-> 0]

PriorityCalls ==
  {[fn |-> "priorityToWeight", priority |-> p, hasWeights |-> TRUE, weights |-> w] :
     p \in Priorities, w \in [Priorities -> 1..MaxWeight]}
  \cup
  {[fn |-> "priorityToWeight", priority |-> p, hasWeights |-> FALSE, weights |-> NoTable] :
     p \in Priorities}

ProgressCalls ==
  {[fn |-> "calculateProgress", completed |-> c, total |-> t] :
     c \in (-MaxCount)..MaxCount, t \in (-MaxCount)..MaxCount}

Texts == UNION {[1..n -> {"a", "b"}] : n \in 0..MaxTextLen}

TruncateCalls ==
  {[fn |-> "truncate", text |-> t, maxLength |-> m] :
     t \in Texts, m \in 0..(MaxTextLen + 1)}

\* normalize as treemap calls it: on the items of weight > 0, when there is
\* one, with the area of the container
NormalizeCalls ==
  {[fn |-> "normalize", items |-> validItems(its), area |-> Whole(w * h)] :
     its \in {l \in ItemLists : Len(validItems(l)) > 0}, w \in Dims, h \in Dims}

InitUtil ==
  /\ pc = "none"
  /\ items = <<>>
  /\ W = 1
  /\ H = 1
  /\ todo = <<>>
  /\ row = <<>>
  /\ container = NoContainer
  /\ rects = <<>>
  /\ normCalls = 0
  /\ sqCalls = 0
  /\ memo = NoMemo
  /\ upc = "call"
  /\ \/ ucall \in PriorityCalls
     \/ ucall \in ProgressCalls
     \/ ucall \in TruncateCalls
     \/ ucall \in NormalizeCalls
  /\ uret = Zero
  /\ FunctionsIdle

PriorityToWeight ==
  /\ upc = "call"
  /\ ucall.fn = "priorityToWeight"
  /\ uret' = priorityToWeight(ucall.priority, ucall.hasWeights, ucall.weights)
  /\ upc' = "done"
  /\ UNCHANGED <<ucall, tvars, fvars>>

CalculateProgress ==
  /\ upc = "call"
  /\ ucall.fn = "calculateProgress"
  /\ uret' = calculateProgress(ucall.completed, ucall.total)
  /\ upc' = "done"
  /\ UNCHANGED <<ucall, tvars, fvars>>

Truncate ==
  /\ upc = "call"
  /\ ucall.fn = "truncate"
  /\ uret' = truncate(ucall.text, ucall.maxLength)
  /\ upc' = "done"
  /\ UNCHANGED <<ucall, tvars, fvars>>

Normalize ==
  /\ upc = "call"
  /\ ucall.fn = "normalize"
  /\ uret' = normalize(ucall.items, ucall.area)
  /\ upc' = "done"
  /\ UNCHANGED <<ucall, tvars, fvars>>

NextUtil ==
  \/ PriorityToWeight
  \/ CalculateProgress
  \/ Truncate
  \/ Normalize

SpecUtil == InitUtil /\ [][NextUtil]_vars

\* ------------------------------------------------ function image-request
\* a user_id is the string of its first eight characters followed by the
\* rest; the empty string stands for a missing field
UserIds == {<<>>, <<"0a1b2c3d", "-e1">>, <<"0a1b2c3d", "-e2">>, <<"4e5f6a7b", "-e3">>}

\* user_id.slice(0, 8)
SliceEight(userId) == SubSeq(userId, 1, 1)

ImageBodies ==
  {[period |-> "day", period_key |-> "2024-01-01", user_id |-> u] : u \in UserIds}
  \cup {[period |-> "", period_key |-> "2024-01-01", user_id |-> <<>>],
        [period |-> "day", period_key |-> "", user_id |-> <<>>]}

\* settingsData?.value || `seed-${period_key}`
CommunitySeed(body) ==
  IF settings = Null THEN <<"seed-", body.period_key>> ELSE <<settings.value>>

\* user_id ? `${communitySeed}-${user_id.slice(0, 8)}` : communitySeed
UserVariationSeed(body) ==
  IF body.user_id # <<>>
  THEN CommunitySeed(body) \o <<"-">> \o SliceEight(body.user_id)
  ELSE CommunitySeed(body)

\* the rows selected by .eq('period').eq('period_key').eq('user_variation_seed')
Matching(r) ==
  SelectSeq(aiImages, LAMBDA img : /\ img.period = ibody[r].period
                                   /\ img.period_key = ibody[r].period_key
                                   /\ img.user_variation_seed = iseed[r].variation)

InitImage ==
  /\ pc = "none"
  /\ items = <<>>
  /\ W = 1
  /\ H = 1
  /\ todo = <<>>
  /\ row = <<>>
  /\ container = NoContainer
  /\ rects = <<>>
  /\ normCalls = 0
  /\ sqCalls = 0
  /\ memo = NoMemo
  /\ upc = "none"
  /\ ucall = NoCall
  /\ uret = Zero
  /\ settings \in {Null, [value |-> "seed-A"]}
  /\ aiImages = <<>>
  /\ ipc = [r \in Requests |-> "start"]
  /\ ibody \in [Requests -> ImageBodies]
  /\ iseed = [r \in Requests |-> Null]
  /\ iresponse = [r \in Requests |-> NoResponse]
  /\ now = 0
  /\ ticks = 0
  /\ profiles = [u \in Users |-> Null]
  /\ boards = [u \in Users |-> Null]
  /\ leaderboards = Null
  /\ lpc = "idle"
  /\ lreq = Null
  /\ lentries = <<>>
  /\ lresponse = NoResponse
  /\ boardReads = 0
  /\ boardWrites = 0

\* the handler up to its query of ai_images: the body is validated and the
\* seeds are computed from the settings row
ImgStart(r) ==
  /\ ipc[r] = "start"
  /\ IF ibody[r].period = "" \/ ibody[r].period_key = ""
     THEN /\ iresponse' = [iresponse EXCEPT ![r] = [status |-> 400]]
          /\ ipc' = [ipc EXCEPT ![r] = "done"]
          /\ iseed' = iseed
     ELSE /\ iseed' = [iseed EXCEPT ![r] = [community |-> CommunitySeed(ibody[r]),
                                            variation |-> UserVariationSeed(ibody[r])]]
          /\ ipc' = [ipc EXCEPT ![r] = "select"]
          /\ iresponse' = iresponse
  /\ UNCHANGED <<settings, aiImages, ibody, tvars, uvars, lvars>>

\* the select of the existing image with .single(): data is the row when
\* exactly one row matches, and null when none or several do
ImgSelect(r) ==
  /\ ipc[r] = "select"
  /\ IF Len(Matching(r)) = 1
     THEN /\ iresponse' = [iresponse EXCEPT ![r] =
                             [status |-> 200, ai_image_id |-> Matching(r)[1].id,
                              cached |-> TRUE]]
          /\ ipc' = [ipc EXCEPT ![r] = "done"]
     ELSE /\ ipc' = [ipc EXCEPT ![r] = "generate"]
          /\ iresponse' = iresponse
  /\ UNCHANGED <<settings, aiImages, ibody, iseed, tvars, uvars, lvars>>

\* await provider.generateImage(...)
ImgGenerate(r) ==
  /\ ipc[r] = "generate"
  /\ ipc' = [ipc EXCEPT ![r] = "insert"]
  /\ UNCHANGED <<settings, aiImages, ibody, iseed, iresponse, tvars, uvars, lvars>>

\* the insert into ai_images and the answer with the new row's id
ImgInsert(r) ==
  /\ ipc[r] = "insert"
  /\ LET newImage == [id |-> Len(aiImages) + 1,
                      period |-> ibody[r].period,
                      period_key |-> ibody[r].period_key,
                      community_seed |-> iseed[r].community,
                      user_variation_seed |-> iseed[r].variation]
     IN  /\ aiImages' = Append(aiImages, newImage)
         /\ iresponse' = [iresponse EXCEPT ![r] =
                            [status |-> 200, ai_image_id |-> newImage.id, cached |-> FALSE]]
  /\ ipc' = [ipc EXCEPT ![r] = "done"]
  /\ UNCHANGED <<settings, ibody, iseed, tvars, uvars, lvars>>

NextImage ==
  \/ \E r \in Requests : ImgStart(r)
  \/ \E r \in Requests : ImgSelect(r)
  \/ \E r \in Requests : ImgGenerate(r)
  \/ \E r \in Requests : ImgInsert(r)

SpecImage == InitImage /\ [][NextImage]_vars

\* --------------------------------------------------- function leaderboard
\* a stored leaderboard younger than this many minutes is served as it is
CacheMinutes == 60

\* .slice(0, 100)
TopN == 100

\* at most this many stars in an anonymized name
MaxStars == 5

\* the period starts at 00:01
PeriodStart == 1

\* the steps by which the clock advances
TickSteps == {1, CacheMinutes - 1}

Least(a, b) == IF a < b THEN a ELSE b

\* the rows of table profiles the boards join: a long name, no profile at
\* all, a user who opted out, a name of one character, and so on in turn
ProfileKinds ==
  <<[display_name |-> <<"A", "l", "e", "x", "a", "n", "d", "r", "a">>,
     streak_count |-> 2, leaderboard_opt_in |-> TRUE],
    Null,
    [display_name |-> <<"C", "y">>, streak_count |-> 1, leaderboard_opt_in |-> FALSE],
    [display_name |-> <<"B">>, streak_count |-> 0, leaderboard_opt_in |-> TRUE]>>

ProfileTable == [u \in Users |-> ProfileKinds[((u - 1) % Len(ProfileKinds)) + 1]]

\* the requests: period_key may be missing, userId is 0 without a token
LeaderboardRequests ==
  {[period_key |-> "2024-01-01", userId |-> u] : u \in {0} \cup Users}
  \cup {[period_key |-> "", userId |-> 0]}

RECURSIVE Stars(_)
Stars(n) == IF n <= 0 THEN <<>> ELSE <<"*">> \o Stars(n - 1)

anonymizeDisplayName(name) ==
  IF Len(name) < 2 THEN <<"U", "s", "e", "r", "*", "*", "*">>
  ELSE <<name[1]>> \o Stars(Least(Len(name) - 1, MaxStars))

calculateCompletionTime(completedAt) ==
  IF completedAt - PeriodStart < 0 THEN 0 ELSE completedAt - PeriodStart

\* board.profiles?.display_name || 'User'
DisplayName(u) ==
  IF profiles[u] = Null \/ profiles[u].display_name = <<>>
  THEN <<"U", "s", "e", "r">>
  ELSE profiles[u].display_name

\* board.profiles?.streak_count || 0
Streak(u) == IF profiles[u] = Null THEN 0 ELSE profiles[u].streak_count

\* the users with a completed board
Completed == {u \in Users : boards[u] # Null}

\* the results the query of boards can return: the completed boards by
\* ascending completed_at, boards completed at the same time in any order
CompletedBoards ==
  {ord \in [1..Cardinality(Completed) -> Completed] :
     /\ \A i, j \in DOMAIN ord : i # j => ord[i] # ord[j]
     /\ \A i, j \in DOMAIN ord : i < j => boards[ord[i]].completed_at <= boards[ord[j]].completed_at}

\* board.profiles?.leaderboard_opt_in !== false
OptedIn(u) == profiles[u] = Null \/ profiles[u].leaderboard_opt_in

\* the entries built from a result of the query: filter, map, slice
Entries(completedBoards) ==
  LET kept == SelectSeq(completedBoards, OptedIn)
      all  == [index \in 1..Len(kept) |->
                 [rank |-> index,
                  user_id |-> kept[index],
                  display_name |-> anonymizeDisplayName(DisplayName(kept[index])),
                  completion_time_minutes |-> calculateCompletionTime(boards[kept[index]].completed_at),
                  streak |-> Streak(kept[index]),
                  anonymized |-> TRUE]]
  IN  SubSeq(all, 1, Least(Len(all), TopN))

\* topUsers.findIndex(u => u.user_id === userId) + 1, or 0 when there is none
RankOf(topUsers, userId) ==
  IF \E i \in 1..Len(topUsers) : "user_id" \in DOMAIN topUsers[i] /\ topUsers[i].user_id = userId
  THEN CHOOSE i \in 1..Len(topUsers) :
         /\ "user_id" \in DOMAIN topUsers[i] /\ topUsers[i].user_id = userId
         /\ \A j \in 1..(i - 1) : topUsers[j].user_id # userId
  ELSE 0

\* Math.round((userRank / length) * 100)
Percentile(userRank, length) == (200 * userRank + length) \div (2 * length)

\* the fields user_rank and user_percentile of a response
Ranking(topUsers, userId) ==
  IF userId # 0 /\ RankOf(topUsers, userId) # 0
  THEN [user_rank |-> RankOf(topUsers, userId),
        user_percentile |-> Percentile(RankOf(topUsers, userId), Len(topUsers))]
  ELSE [user_rank |-> 0, user_percentile |-> 0]

\* ({ user_id, ...rest }) => rest
WithoutUserId(entry) == [f \in DOMAIN entry \ {"user_id"} |-> entry[f]]

\* the cached entries as the cached path returns them
CachedTopUsers(topUsers) ==
  [i \in 1..Len(topUsers) |-> [topUsers[i] EXCEPT !.anonymized = TRUE]]

\* the test of the cached path with <= in place of <
IsRecentOrAnHourOld(existingLeaderboard) ==
  existingLeaderboard # Null /\ now - existingLeaderboard.generated_at <= CacheMinutes

\* existingLeaderboard && ageMinutes < 60
IsRecent(existingLeaderboard) ==
  existingLeaderboard # Null /\ now - existingLeaderboard.generated_at < CacheMinutes

InitBoard ==
  /\ pc = "none"
  /\ items = <<>>
  /\ W = 1
  /\ H = 1
  /\ todo = <<>>
  /\ row = <<>>
  /\ container = NoContainer
  /\ rects = <<>>
  /\ normCalls = 0
  /\ sqCalls = 0
  /\ memo = NoMemo
  /\ upc = "none"
  /\ ucall = NoCall
  /\ uret = Zero
  /\ settings = Null
  /\ aiImages = <<>>
  /\ ipc = [r \in Requests |-> "idle"]
  /\ ibody = [r \in Requests |-> Null]
  /\ iseed = [r \in Requests |-> Null]
  /\ iresponse = [r \in Requests |-> NoResponse]
  /\ now = 0
  /\ ticks = 0
  /\ profiles = ProfileTable
  /\ boards = [u \in Users |-> Null]
  /\ leaderboards = Null
  /\ lpc = "idle"
  /\ lreq = Null
  /\ lentries = <<>>
  /\ lresponse = NoResponse
  /\ boardReads = 0
  /\ boardWrites = 0

\* time passes
Tick ==
  /\ ticks < MaxTicks
  /\ \E d \in TickSteps : now' = now + d
  /\ ticks' = ticks + 1
  /\ UNCHANGED <<profiles, boards, leaderboards, lpc, lreq, lentries, lresponse,
                 boardReads, boardWrites, tvars, uvars, ivars>>

\* a user completes the board of the period
CompleteBoard(u) ==
  /\ boards[u] = Null
  /\ boards' = [boards EXCEPT ![u] = [completed_at |-> now]]
  /\ UNCHANGED <<now, ticks, profiles, leaderboards, lpc, lreq, lentries, lresponse,
                 boardReads, boardWrites, tvars, uvars, ivars>>

\* the handler up to the call of getLeaderboard
LbRequest ==
  /\ lpc \in {"idle", "done"}
  /\ lreq' \in LeaderboardRequests
  /\ IF lreq'.period_key = ""
     THEN lpc' = "done" /\ lresponse' = [status |-> 400]
     ELSE lpc' = "select" /\ lresponse' = NoResponse
  /\ lentries' = <<>>
  /\ boardReads' = 0
  /\ boardWrites' = 0
  /\ UNCHANGED <<now, ticks, profiles, boards, leaderboards, tvars, uvars, ivars>>

\* getLeaderboard: the stored leaderboard is read and, when recent, returned
LbSelect ==
  /\ lpc = "select"
  /\ IF IsRecent(leaderboards)
     THEN LET topUsers == leaderboards.top_users
          IN  /\ lresponse' =
                   [status |-> 200,
                    period_key |-> lreq.period_key,
                    top_users |-> CachedTopUsers(topUsers),
                    ranking |-> Ranking(topUsers, lreq.userId),
                    total_participants |-> Len(topUsers),
                    generated_at |-> leaderboards.generated_at]
              /\ lpc' = "done"
     ELSE /\ lpc' = "boards"
          /\ lresponse' = lresponse
  /\ UNCHANGED <<now, ticks, profiles, boards, leaderboards, lreq, lentries,
                 boardReads, boardWrites, tvars, uvars, ivars>>

\* getLeaderboard: the completed boards are fetched and the entries built
LbBoards ==
  /\ lpc = "boards"
  /\ \E completedBoards \in CompletedBoards : lentries' = Entries(completedBoards)
  /\ boardReads' = boardReads + 1
  /\ lpc' = "upsert"
  /\ UNCHANGED <<now, ticks, profiles, boards, leaderboards, lreq, lresponse,
                 boardWrites, tvars, uvars, ivars>>

\* getLeaderboard: the leaderboard is stored and returned
LbUpsert ==
  /\ lpc = "upsert"
  /\ leaderboards' = [period_key |-> lreq.period_key, top_users |-> lentries,
                      generated_at |-> now]
  /\ boardWrites' = boardWrites + 1
  /\ lresponse' =
       [status |-> 200,
        period_key |-> lreq.period_key,
        top_users |-> [i \in 1..Len(lentries) |-> WithoutUserId(lentries[i])],
        ranking |-> Ranking(lentries, lreq.userId),
        total_participants |-> Len(lentries),
        generated_at |-> now]
  /\ lpc' = "done"
  /\ UNCHANGED <<now, ticks, profiles, boards, lreq, lentries, boardReads,
                 tvars, uvars, ivars>>

NextBoard ==
  \/ Tick
  \/ \E u \in Users : CompleteBoard(u)
  \/ LbRequest
  \/ LbSelect
  \/ LbBoards
  \/ LbUpsert

SpecBoard == InitBoard /\ [][NextBoard]_vars

\* ---------------------------------------------------- what the claims use
Done == pc = "done"

\* positions of the input items with weight > 0
PosIdx == {i \in 1..Len(items) : items[i].weight[1] > 0}

RECURSIVE SumInts(_)
SumInts(S) == IF S = {} THEN 0 ELSE LET i == CHOOSE j \in S : TRUE
                                    IN  items[i].weight[1] + SumInts(S \ {i})

\* sum of the positive input weights
TotalPositive == SumInts(PosIdx)

RectArea(r) == RMul(r.width, r.height)

RECURSIVE SumAreas(_)
SumAreas(rs) == IF Len(rs) = 0 THEN Zero ELSE RAdd(RectArea(Head(rs)), SumAreas(Tail(rs)))

RAbs(a) == <<Abs(a[1]), a[2]>>

\* the open interval between p and p + len, whatever the sign of len
Lo(p, len) == MathMin(p, RAdd(p, len))

Hi(p, len) == MathMax(p, RAdd(p, len))

\* two rectangles share a region of positive area
Overlap(a, b) ==
  /\ RLt(Lo(a.x, a.width), Hi(b.x, b.width))
  /\ RLt(Lo(b.x, b.width), Hi(a.x, a.width))
  /\ RLt(Lo(a.y, a.height), Hi(b.y, b.height))
  /\ RLt(Lo(b.y, b.height), Hi(a.y, a.height))

\* C1: when treemap returns for at least one positive-weight item, the areas
\* of the returned rectangles sum to W * H within 1 unit^2.
C1_AreaConservation ==
  (Done /\ PosIdx # {}) =>
    RLt(RAbs(RSub(SumAreas(rects), Whole(W * H))), One)

\* C2: every returned rectangle has the area weight / (sum of positive
\* weights) * W * H of its source item (within 0.01 of the container area).
C2_Proportionality ==
  Done =>
    \A k \in 1..Len(rects) :
      LET share == RDiv(RectArea(rects[k]), Whole(W * H))
          want  == Num(items[rects[k].id].weight[1], TotalPositive)
      IN  RLe(RAbs(RSub(share, want)), Num(1, 100))

\* C3: every returned rectangle lies inside the root container:
\* x >= 0, y >= 0, x + width <= W, y + height <= H.
C3_Containment ==
  Done =>
    \A k \in 1..Len(rects) :
      /\ RLe(Zero, rects[k].x)
      /\ RLe(Zero, rects[k].y)
      /\ RLe(RAdd(rects[k].x, rects[k].width), Whole(W))
      /\ RLe(RAdd(rects[k].y, rects[k].height), Whole(H))

\* C4: no two distinct returned rectangles share a region of positive area.
C4_NonOverlap ==
  Done =>
    \A j, k \in 1..Len(rects) : j < k => ~Overlap(rects[j], rects[k])

\* C5: treemap returns exactly one rectangle per input item of weight > 0,
\* with that item's id, and none for an item of weight <= 0.
C5_Filtering ==
  Done =>
    /\ Len(rects) = Cardinality(PosIdx)
    /\ \A i \in 1..Len(items) :
         Cardinality({k \in 1..Len(rects) : rects[k].id = items[i].id})
           = IF i \in PosIdx THEN 1 ELSE 0

C5_Witness ==
  /\ Done
  /\ Len(rects) = 2
  /\ \E i \in 1..Len(items) : items[i].weight[1] <= 0

\* C6: every returned rectangle has a finite width > 0 and a finite
\* height > 0.
C6_PositiveFinite ==
  Done =>
    \A k \in 1..Len(rects) :
      /\ IsFinite(rects[k].width) /\ RLt(Zero, rects[k].width)
      /\ IsFinite(rects[k].height) /\ RLt(Zero, rects[k].height)

\* C7: for a single item of positive weight, treemap returns exactly one
\* rectangle, with x = 0, y = 0, width = W and height = H.
C7_SingleItem ==
  (Done /\ Len(items) = 1 /\ PosIdx = {1}) =>
    /\ Len(rects) = 1
    /\ rects[1].x = Zero
    /\ rects[1].y = Zero
    /\ rects[1].width = Whole(W)
    /\ rects[1].height = Whole(H)

\* C8: for an empty list or a list with no item of weight > 0, treemap
\* returns the empty list and invokes neither normalize nor squarify.
C8_EmptyShortCircuit ==
  (Done /\ PosIdx = {}) => (rects = <<>> /\ normCalls = 0 /\ sqCalls = 0)

C8_Witness == Done /\ Len(items) >= 2 /\ PosIdx = {}

C10_IdAndPayload ==
  Done =>
    \A k \in 1..Len(rects) :
      \E i \in PosIdx :
        /\ rects[k].id = items[i].id
        /\ rects[k].data = items[i].data
        /\ \A j \in PosIdx : rects[k].id = items[j].id => j = i

C10_Witness ==
  /\ Done
  /\ Len(rects) = 3
  /\ rects[1].id # 1

\* what is left to do for the pending invocation of squarify: two
\* invocations per unplaced item, one for an open row, one to return
Variant ==
  IF pc = "squarify" THEN 2 * Len(todo) + (IF Len(row) > 0 THEN 1 ELSE 0) + 1 ELSE 0

\* C11: treemap terminates for every item list and every W, H: each
\* invocation of squarify consumes an item, finalizes the open row or
\* returns, so that what is left to do strictly decreases, and for n items
\* of positive weight squarify is invoked at most 2n + 1 times.
C11_Termination ==
  [][pc = "squarify" =>
       /\ Variant' < Variant
       /\ sqCalls' = sqCalls + 1
       /\ sqCalls' + Variant' <= 2 * Cardinality(PosIdx) + 1]_vars

C11_Witness ==
  /\ Done
  /\ Cardinality(PosIdx) = 3
  /\ sqCalls = 6
  /\ W <= 0

\* C12: no step of treemap changes the caller's items array: its length,
\* its order and the id, weight and data of every element stay as passed.
C12_InputsNotMutated == [][items' = items]_vars

C12_Witness ==
  /\ Done
  /\ Len(items) = 3
  /\ Len(rects) = 2
  /\ rects[1].id = 3
  /\ items[3].weight = Whole(2)

Returned(fn) == upc = "done" /\ ucall.fn = fn

\* C13: priorityToWeight returns weights[priority] for high, medium and low,
\* and 3, 2, 1 for them when the table is omitted.
C13_PriorityToWeight ==
  Returned("priorityToWeight") =>
    uret = IF ucall.hasWeights THEN ucall.weights[ucall.priority]
           ELSE CASE ucall.priority = "high"   -> 3
                  [] ucall.priority = "medium" -> 2
                  [] ucall.priority = "low"    -> 1

C13_Witness ==
  /\ Returned("priorityToWeight")
  /\ ucall.hasWeights
  /\ ucall.priority = "low"
  /\ uret = 3

\* C14: calculateProgress returns 0 when total is 0 and otherwise
\* completed / total clamped into [0, 1]; the result always lies in [0, 1].
C14_CalculateProgress ==
  Returned("calculateProgress") =>
    LET c == ucall.completed
        t == ucall.total
    IN  /\ uret = IF t = 0 THEN Zero
                  ELSE IF c * t <= 0 THEN Zero
                  ELSE IF Abs(c) >= Abs(t) THEN One
                  ELSE Num(c, t)
        /\ RLe(Zero, uret)
        /\ RLe(uret, One)

C14_Witness ==
  /\ Returned("calculateProgress")
  /\ ucall.total = 0
  /\ ucall.completed > 0
  /\ uret = Zero
  /\ FunctionsIdle

\* C15: truncate returns the text when it is no longer than maxLength, and
\* otherwise, for every maxLength >= 0, exactly maxLength characters: the
\* first maxLength - 3 of the text followed by '...'.
C15_Truncate ==
  Returned("truncate") =>
    IF Len(ucall.text) <= ucall.maxLength
    THEN uret = ucall.text
    ELSE /\ Len(uret) = ucall.maxLength
         /\ uret = SubSeq(ucall.text, 1, ucall.maxLength - 3) \o Ellipsis

\* an invocation of squarify that has a next unplaced item
AtItem == pc = "squarify" /\ Len(todo) > 0

\* the shorter dimension of the current sub-container
Side == MathMin(container.width, container.height)

WorstOpen == worst(row, Side)

WorstWith == worst(Append(row, Head(todo)), Side)

\* the step appends the next item to the open row
Extended == row' = Append(row, Head(todo)) /\ todo' = Tail(todo)

\* C16: the next item is appended to the open row when the row is empty or
\* when worst(row + item, side) <= worst(row, side).
C16_ExtendsUnlessWorse ==
  [][(AtItem /\ (Len(row) = 0 \/ RLe(WorstWith, WorstOpen))) => Extended]_vars

\* C16 (amended): the next item is appended to the open row when the row is
\* empty or when worst(row + item, side) < worst(row, side), strictly.
C16_ExtendsWhenStrictlyBetter ==
  [][(AtItem /\ (Len(row) = 0 \/ RLt(WorstWith, WorstOpen))) => Extended]_vars

C16_Witness ==
  /\ pc = "squarify"
  /\ Len(row) >= 2
  /\ Len(todo) > 0
  /\ Len(rects) = 0

\* the worst ratio is the same with and without the next item
Tie == AtItem /\ Len(row) > 0 /\ WorstWith = WorstOpen /\ ~IsNaN(WorstOpen)

\* C17: on a tie the item does not extend the row: the open row is laid out,
\* the sub-container is shrunk by the row's thickness, and the item opens the
\* new row in that sub-container.
C17_TieFinalizes ==
  [][/\ Tie =>
          LET t == RDiv(SumWeights(row), Side)
          IN  /\ pc' = "squarify"
              /\ row' = <<>>
              /\ todo' = todo
              /\ Len(rects') = Len(rects) + Len(row)
              /\ \A k \in 1..Len(row) : rects'[Len(rects) + k].id = row[k].id
              /\ container' = [container EXCEPT !.y = RAdd(container.y, t),
                                                !.height = RSub(container.height, t)]
     /\ (AtItem /\ Len(row) = 0) =>
          /\ row' = <<Head(todo)>>
          /\ todo' = Tail(todo)
          /\ container' = container]_vars

C17_Witness ==
  /\ Tie
  /\ Len(rects) > 0

\* the step lays out the open row (finalizing it or flushing it at the end)
LaysOutRow == pc = "squarify" /\ Len(row) > 0 /\ rects' # rects

\* the rectangles the step adds
NewRects == SubSeq(rects', Len(rects) + 1, Len(rects'))

RECURSIVE SumWidths(_)
SumWidths(rs) == IF Len(rs) = 0 THEN Zero ELSE RAdd(Head(rs).width, SumWidths(Tail(rs)))

RECURSIVE SumHeights(_)
SumHeights(rs) == IF Len(rs) = 0 THEN Zero ELSE RAdd(Head(rs).height, SumHeights(Tail(rs)))

\* C18: every row laid out spans the sub-container along its shorter
\* dimension: along x, with widths summing to the width, when it is taller
\* than wide; along y, with heights summing to the height, when it is wider
\* than tall.
C18_RowOrientation ==
  [][(LaysOutRow /\ RLt(Zero, container.width) /\ RLt(Zero, container.height)) =>
       IF RLe(container.width, container.height)
       THEN /\ \A k \in 1..Len(NewRects) : NewRects[k].y = container.y
            /\ SumWidths(NewRects) = container.width
       ELSE /\ \A k \in 1..Len(NewRects) : NewRects[k].x = container.x
            /\ SumHeights(NewRects) = container.height]_vars

\* the pending invocation of squarify is going to call layoutRow
LayoutPending ==
  /\ pc = "squarify"
  /\ Len(row) > 0
  /\ (Len(todo) = 0 \/ ~RLt(WorstWith, WorstOpen))

\* C19: whenever layoutRow is invoked, the side passed to it and the width
\* and height of the current sub-container are > 0.
C19_LayoutPrecondition ==
  LayoutPending =>
    /\ RLt(Zero, Side)
    /\ RLt(Zero, container.width)
    /\ RLt(Zero, container.height)

\* C20: at every invocation of squarify the area of the current
\* sub-container equals the sum of the normalized weights of the open row
\* and of the items not yet placed.
C20_RemainingArea ==
  pc = "squarify" =>
    RMul(container.width, container.height) = RAdd(SumWeights(row), SumWeights(todo))

\* squarify is about to flush an open row of one item, all items consumed
LastItemPending == pc = "squarify" /\ Len(todo) = 0 /\ Len(row) = 1

\* C21: when all items are consumed and the flushed open row holds a single
\* item, the rectangle emitted for it has the x, y, width and height of the
\* current sub-container, whatever its proportions.
C21_LastItemFillsContainer ==
  [][LastItemPending =>
       /\ Len(rects') = Len(rects) + 1
       /\ rects'[Len(rects')].id = row[1].id
       /\ rects'[Len(rects')].x = container.x
       /\ rects'[Len(rects')].y = container.y
       /\ rects'[Len(rects')].width = container.width
       /\ rects'[Len(rects')].height = container.height]_vars

\* C22: a row laid out with side s has rowThickness = sum(row weights) / s;
\* every rectangle of the row has that thickness and the extent
\* weight / rowThickness along the row; the first starts at the sub-container
\* origin, each following one starts where the previous one ends, in row
\* order, and (for a finite s) the extents sum to s.
C22_RowGeometry ==
  [][LaysOutRow =>
       LET s == Side
           rowThickness == RDiv(SumWeights(row), s)
       IN  /\ Len(NewRects) = Len(row)
           /\ \A k \in 1..Len(row) :
                /\ NewRects[k].id = row[k].id
                /\ NewRects[k].height = rowThickness
                /\ NewRects[k].width = RDiv(row[k].weight, rowThickness)
                /\ NewRects[k].y = container.y
                /\ NewRects[k].x = IF k = 1 THEN container.x
                                   ELSE RAdd(NewRects[k - 1].x, NewRects[k - 1].width)
           /\ IsFinite(s) => SumWidths(NewRects) = s]_vars

C22_Witness ==
  /\ Done
  /\ Len(rects) = 3
  /\ rects[2].y = rects[1].y
  /\ RLt(Zero, rects[1].width)
  /\ rects[2].x = rects[1].width
  /\ RLt(rects[2].width, rects[1].width)

\* the step finalizes the open row and recurses into what remains
FinalizesRow == AtItem /\ LaysOutRow

\* the step flushes the open row, all items consumed
FlushesRow == pc = "squarify" /\ Len(todo) = 0 /\ LaysOutRow

\* C23: the remaining sub-container returned by layoutRow has its origin
\* advanced and its size reduced by rowThickness along the axis perpendicular
\* to the row, and the same origin coordinate and size along the row's axis;
\* the container and the row passed in are not modified.
C23_SubContainerShrinks ==
  [][/\ FinalizesRow =>
          LET rowThickness == RDiv(SumWeights(row), Side)
          IN  /\ container'.y = RAdd(container.y, rowThickness)
              /\ container'.height = RSub(container.height, rowThickness)
              /\ container'.x = container.x
              /\ container'.width = container.width
              /\ \A k \in 1..Len(NewRects) :
                   NewRects[k].y = container.y /\ NewRects[k].id = row[k].id
     /\ FlushesRow => (container' = container /\ row' = row)]_vars

C23_Witness ==
  /\ pc = "squarify"
  /\ Len(rects) = 2
  /\ RLt(Zero, container.y)
  /\ RLt(Zero, container.height)
  /\ IsFinite(container.height)
  /\ container.x = Zero
  /\ container.width = Whole(W)

\* the sum of the (whole) weights of a list of items
RECURSIVE TotalOf(_)
TotalOf(its) == IF Len(its) = 0 THEN 0 ELSE Head(its).weight[1] + TotalOf(Tail(its))

\* C24: normalize applied to the positive-weight items returns one entry per
\* item, in the same order, with weight = item.weight / totalPositiveWeight
\* * area; the normalized weights are all > 0 and sum to area = W * H.
C24_Normalize ==
  Returned("normalize") =>
    LET its == ucall.items
    IN  /\ Len(uret) = Len(its)
        /\ \A i \in 1..Len(its) :
             /\ uret[i].id = its[i].id
             /\ uret[i].data = its[i].data
             /\ uret[i].weight = Num(its[i].weight[1] * ucall.area[1], TotalOf(its))
             /\ RLt(Zero, uret[i].weight)
        /\ SumWeights(uret) = ucall.area

C24_Witness ==
  /\ Returned("normalize")
  /\ Len(uret) = 2
  /\ ucall.items[1].id # 1
  /\ ucall.area = Whole(6)
  /\ uret[1].weight = Whole(4)
  /\ uret[2].weight = Whole(2)

Ids(s) == [k \in 1..Len(s) |-> s[k].id]

\* the ids in the order squarify handles them: laid out, in the open row,
\* not yet placed (the returned list once treemap has returned)
Order == IF Done THEN Ids(rects) ELSE Ids(rects) \o Ids(row) \o Ids(todo)

\* input item a goes before input item b: heavier, or as heavy and earlier
Before(a, b) ==
  \/ items[a].weight[1] > items[b].weight[1]
  \/ items[a].weight[1] = items[b].weight[1] /\ a < b

\* the open row followed by the unplaced items
Pending == row \o todo

\* C25: squarify receives the normalized items sorted by non-increasing
\* weight, items of equal weight in input order; rows are consecutive runs
\* of that sequence, and the returned list is in exactly that order.
C25_Ordering ==
  (pc \in {"squarify", "done"} /\ PosIdx # {}) =>
    /\ Len(Order) = Cardinality(PosIdx)
    /\ \A j, k \in 1..Len(Order) : j < k => Before(Order[j], Order[k])
    /\ pc = "squarify" =>
         \A j, k \in 1..Len(Pending) :
           j < k => ~RLt(Pending[j].weight, Pending[k].weight)

C25_Witness ==
  /\ Done
  /\ Ids(rects) = <<2, 1, 3>>
  /\ items[1].weight = items[3].weight
  /\ rects[1].y # rects[3].y

\* the call TreemapBoard makes: a board one and a half times as high as wide,
\* one item per task, weighted by priorityToWeight with the default table
BoardCall ==
  /\ 2 * H = 3 * W
  /\ Len(items) > 0
  /\ \A i \in 1..Len(items) :
       \E p \in Priorities : items[i].weight = Whole(priorityToWeight(p, FALSE, NoTable))

\* C26: for the board container (boardHeight = 1.5 * boardWidth) and a
\* non-empty task list with weights 1, 2 or 3, every tile returned lies within
\* the board: left >= 0, top >= 0, left + width <= boardWidth and
\* top + height <= boardHeight.
C26_BoardContainment ==
  (Done /\ BoardCall) =>
    \A k \in 1..Len(rects) :
      /\ RLe(Zero, rects[k].x)
      /\ RLe(Zero, rects[k].y)
      /\ RLe(RAdd(rects[k].x, rects[k].width), Whole(W))
      /\ RLe(RAdd(rects[k].y, rects[k].height), Whole(H))

\* --------------------------------- a call repeated on a permuted item list
\* lists of items of pairwise distinct positive weights; the id of an item
\* is tied to the item, not to its position (here: named after its weight)
PermMaxItems == 3
PermMaxWeight == 4
PermMaxDim == 2

PermItemLists ==
  {[i \in 1..Len(ws) |-> [id |-> ws[i], weight |-> Whole(ws[i]), data |-> Payload(ws[i])]] :
     ws \in {s \in UNION {[1..n -> 1..PermMaxWeight] : n \in 0..PermMaxItems} :
               \A i, j \in 1..Len(s) : i # j => s[i] # s[j]}}

\* the lists holding the same items as its, in any order
Reorderings(its) ==
  {l \in PermItemLists : Len(l) = Len(its) /\ \A i \in 1..Len(its) : \E j \in 1..Len(l) : l[j] = its[i]}

PermDims == 1..PermMaxDim

InitPerm ==
  /\ pc = "call"
  /\ items \in PermItemLists
  /\ W \in PermDims
  /\ H \in PermDims
  /\ todo = <<>>
  /\ row = <<>>
  /\ container = NoContainer
  /\ rects = <<>>
  /\ normCalls = 0
  /\ sqCalls = 0
  /\ memo = NoMemo
  /\ upc = "none"
  /\ ucall = NoCall
  /\ uret = Zero
  /\ FunctionsIdle

\* the caller remembers the call that returned and calls treemap with the
\* same items in another order and the same container
InvokePermuted ==
  /\ pc = "done"
  /\ ~memo.set
  /\ memo' = [set |-> TRUE, items |-> items, W |-> W, H |-> H, result |-> rects]
  /\ pc' = "call"
  /\ items' \in Reorderings(items)
  /\ UNCHANGED <<W, H, todo, row, container, rects, normCalls, sqCalls, uvars, fvars>>

NextPerm ==
  \/ Treemap
  \/ SquarifyFlush
  \/ SquarifyStart
  \/ SquarifyExtend
  \/ SquarifyFinalize
  \/ InvokePermuted

SpecPerm == InitPerm /\ [][NextPerm]_vars

\* C27: for items of pairwise distinct positive weights and distinct ids,
\* permuting the input list changes neither the rectangle (x, y, width,
\* height) assigned to any id nor the order of the returned list.
C27_PermutationInvariance ==
  (Done /\ memo.set) =>
    /\ Len(rects) = Len(memo.result)
    /\ \A k \in 1..Len(rects) :
         /\ rects[k].id = memo.result[k].id
         /\ rects[k].x = memo.result[k].x
         /\ rects[k].y = memo.result[k].y
         /\ rects[k].width = memo.result[k].width
         /\ rects[k].height = memo.result[k].height

C27_Witness ==
  /\ Done
  /\ memo.set
  /\ Len(items) = 3
  /\ items[1] = memo.items[3]
  /\ items[2] = memo.items[1]
  /\ Len(rects) = 3
  /\ rects[2].y = rects[1].y
  /\ RLt(Zero, rects[2].x)

\* the key of the image a request asks for
ImageKey(r) == <<ibody[r].period, ibody[r].period_key, iseed[r].variation>>

\* the rows of ai_images with the key of request r
RowsFor(r) == Matching(r)

Answered(r) == ipc[r] = "done" /\ iresponse[r].status = 200

\* C28: image-request creates at most one ai_images row per (period,
\* period_key, user_variation_seed): under any interleaving of concurrent
\* requests with the same key a single row is inserted, and every other
\* request answers cached = true with that row's id.
C28_OneRowPerKey ==
  \A r \in Requests :
    Answered(r) =>
      /\ Len(RowsFor(r)) = 1
      /\ iresponse[r].ai_image_id = RowsFor(r)[1].id
      /\ \A q \in Requests :
           (q # r /\ Answered(q) /\ ImageKey(q) = ImageKey(r)) =>
             (iresponse[q].cached \/ iresponse[r].cached)

\* the handler has answered with a leaderboard
Served == lpc = "done" /\ lresponse.status = 200

\* the fields of a LeaderboardEntry
EntryFields == {"rank", "display_name", "completion_time_minutes", "streak", "anonymized"}

\* C29: no entry of top_users in a leaderboard response has a field user_id,
\* whether the leaderboard was generated for the request or served from the
\* stored row, and the entries have the same fields on both paths.
C29_NoUserId ==
  Served =>
    \A i \in 1..Len(lresponse.top_users) :
      /\ "user_id" \notin DOMAIN lresponse.top_users[i]
      /\ DOMAIN lresponse.top_users[i] = EntryFields

\* the users who completed their board and did not opt out
Ranked == {u \in Users : boards[u] # Null /\ (profiles[u] = Null \/ profiles[u].leaderboard_opt_in)}

====
